---- MODULE Spec2Model ----
(***************************************************************************)
(* Model of the clickhouse-backup REST control plane                       *)
(* (src/pkg/chbackup/server.go): the operation lock, the reload control    *)
(* loop of Server, the HTTP handlers and the backup metrics.               *)
(*                                                                         *)
(* Every goroutine of the program is a process of the model: the control   *)
(* loop of Server, the serving goroutine it spawns per iteration, and one  *)
(* handler goroutine per in-flight request (a request slot).  A step of    *)
(* the model is the code between two points where a goroutine can block or *)
(* where it touches state shared with another goroutine.                   *)
(***************************************************************************)
EXTENDS Integers, Sequences, FiniteSets, TLC

----------------------------------------------------------------------------
(* Bounds of the model.                                                    *)

\* request slots: handler goroutines that can be in flight at once
NumReq == 2
\* requests accepted over a run
MaxReqs == 3
\* largest clock value
MaxClock == 2
\* largest number of tables / local backups / remote backups listed
MaxItems == 1
\* adapter calls made over a run
MaxCalls == 3
\* largest number of objects the backend returns in one page of a listing
MaxPage == 2
\* longest time a backend listing takes
MaxDur == 2
\* most transient failures the backend gives before it answers a request
MaxTransient == 1

----------------------------------------------------------------------------
(* Program constants.                                                      *)

\* semaphore.NewWeighted(1)
LockSize == 1
StatusOK == 200
StatusInternalServerError == 500
StatusServiceUnavailable == 503
\* m.LastBackupSuccess.Set(2): 0=failed, 1=success, 2=unknown
Unknown == 2

ErrAPILocked == "Another operation is currently running"

Slots == 1 .. NumReq

\* The fields of Config the control plane reads: API.ListenAddr and
\* General.RemoteStorage.
StartConfig == [ListenAddr |-> 0, RemoteStorage |-> "none"]

\* What yaml.Unmarshal can produce from a parsable body.
ParsedConfigs ==
    { [ListenAddr |-> 1, RemoteStorage |-> "s3"],
      [ListenAddr |-> 2, RemoteStorage |-> "none"],
      [ListenAddr |-> 3, RemoteStorage |-> "bogus"] }

\* validateConfig(newConfig) = nil
validateConfig(c) == c.RemoteStorage \in {"none", "s3", "gcs", "cos"}

\* Request bodies of POST /backup/config: ioutil.ReadAll fails, yaml.Unmarshal
\* fails, or the body parses to a configuration.
NoBody == [class |-> "none", cfg |-> StartConfig]
Bodies ==
    { [class |-> "unreadable", cfg |-> StartConfig],
      [class |-> "unparsable", cfg |-> StartConfig] }
    \cup { [class |-> "yaml", cfg |-> c] : c \in ParsedConfigs }

ValidBody(b) == b.class = "yaml" /\ validateConfig(b.cfg)

MutatingKinds ==
    {"create", "freeze", "clean", "upload", "download", "restore", "delete",
     "configUpdate"}
ReadOnlyKinds == {"root", "health", "configDefault", "config", "tables", "list"}
Kinds == MutatingKinds \cup ReadOnlyKinds

Wheres == {"local", "remote", "other"}

(* The remote storage: buckets, keys, payloads and error values. *)

Adapters == {"S3", "GCS", "COS"}

\* Config.Bucket (for COS the bucket of Config.RowUrl) and another bucket
ConfigBucket == "bucket"
OtherBucket == "other"
Buckets == {ConfigBucket, OtherBucket}
\* values of the parameter overrideBucket
Overrides == {"", OtherBucket}

\* what os.Hostname() returns: a name, or "" with an error
HostName == "h1"
Hostnames == {HostName, ""}

Payloads == {"p1", "p2"}
Absent == "absent"

\* object keys, as their path segments
Keys == { <<"d", "f">>, <<"f">> }

\* path.Dir(key)
Dir(key) == IF Len(key) = 1 THEN <<".">> ELSE SubSeq(key, 1, Len(key) - 1)
\* path.Base(key)
Base(key) == key[Len(key)]
\* fmt.Sprintf("%s/%s_%s", path.Dir(key), hostname, path.Base(key))
HostnameKey(key, hostname) == Dir(key) \o << hostname \o "_" \o Base(key) >>

\* the keys an object can be stored under
StoredKeys == Keys \cup { HostnameKey(k, HostName) : k \in Keys }

\* error values: the package that defines them, their code, and, for an error
\* made by errors.Wrapf, the package of the error it wraps
Err(lib, code) == [lib |-> lib, code |-> code, cause |-> ""]
Nil == Err("", "nil")
ErrNotFound == Err("chbackup", "ErrNotFound")
\* errors.Wrapf(err, ...)
Wrapf(err) == [lib |-> "pkg/errors", code |-> err.code, cause |-> err.lib]

\* The failures a backend request can end with whatever the bucket holds.
Faults(kind) ==
    IF kind = "S3" THEN {Err("awserr", "AccessDenied"), Err("net", "timeout")}
    ELSE IF kind = "GCS" THEN {Err("googleapi", "403")}
    ELSE {Err("cos.ErrorResponse", "AccessDenied"), Err("net", "timeout")}

\* How a backend request ends: without a fault (Nil) or with one.
Outcomes(kind) == {Nil} \cup Faults(kind)

\* MaxRetries: aws.Int(30)
MaxRetries == 30

\* The failures the AWS SDK retries: connection errors (and 5xx, throttling),
\* not a refusal such as AccessDenied or a missing object.
Retryable(err) == err.lib = "net"

\* How often the backend request that decides a call is issued when it ends
\* with resp: the S3 session retries a retryable failure MaxRetries times, so
\* a request that keeps failing is issued MaxRetries + 1 times, and any other
\* answer is the answer to the first request or to a retry after transient
\* failures.  The GCS and COS adapters configure no retries.
Tries(kind, resp) ==
    IF kind # "S3" THEN {1}
    ELSE IF Retryable(resp) THEN {MaxRetries + 1}
    ELSE { 1 + k : k \in { n \in 0 .. MaxTransient : n <= MaxRetries } }

\* Config.Path, the parameter overridePath: prefixes, as path segments
ConfigPaths == { <<>>, <<"d">> }
OverridePaths == { <<>>, <<"d">> }

\* Config.Timeout in seconds; 0 is no timeout
Timeouts == {0, 1}

\* key lies under prefix
Under(key, prefix) ==
    /\ Len(prefix) <= Len(key)
    /\ SubSeq(key, 1, Len(prefix)) = prefix

Configs ==
    [Bucket : {ConfigBucket}, PathHostnameInclude : BOOLEAN, Path : ConfigPaths,
     Timeout : Timeouts]

NoAdapter ==
    [kind |-> "none",
     Config |-> [Bucket |-> "", PathHostnameInclude |-> FALSE, Path |-> <<>>,
                 Timeout |-> 0],
     client |-> ""]
NoCall ==
    [op |-> "none", key |-> <<>>, ob |-> "", data |-> Absent, host |-> "",
     bucket |-> "", resp |-> Nil, err |-> Nil, val |-> Absent, tries |-> 0,
     path |-> <<>>, prefix |-> <<>>, visited |-> <<>>, dur |-> 0, at |-> 0,
     background |-> FALSE]

VARIABLES
    lock,       \* api.lock: weight acquired from the semaphore
    config,     \* api.config
    server,     \* api.server: index into servers, 0 is nil
    servers,    \* the http.Server objects built so far
    loopPc,     \* position of the control loop of Server
    gor,        \* the serving goroutines spawned by the control loop
    exited,     \* os.Exit(1) was called
    metrics,    \* api.metrics
    now,        \* the wall clock: the latest reading of time.Now()
    req,        \* the request slots
    nreq,       \* requests accepted so far
    lastCreate, \* what the most recently completed CreateBackup attempt returned
    attempts,   \* create-backup attempts made: calls that took the lock
    accepted,   \* the configuration submitted last that passed validateConfig
    remote,     \* the backend adapter in use: its kind, Config and client
    objs,       \* the objects the backend stores, by bucket and key
    written,    \* the <<bucket, key>> pairs an object was ever stored under
    last,       \* the adapter call made last: its arguments and what it returned
    ncalls      \* adapter calls made so far

\* the state of the control plane
serverVars ==
    <<lock, config, server, servers, loopPc, gor, exited, metrics, now, req,
      nreq, lastCreate, attempts, accepted>>

\* the state of the remote storage
adapterVars == <<remote, objs, written, last, ncalls>>

vars == <<serverVars, adapterVars>>

Idle ==
    [ pc |-> "idle", kind |-> "none", gen |-> 0, c |-> StartConfig,
      body |-> NoBody, where |-> "none", status |-> 0, out |-> <<>>,
      calls |-> <<>>, locked |-> FALSE, busy |-> FALSE, start |-> 0,
      dDur |-> 0, dEnd |-> 0 ]

\* setupMetrics: gauges and counters start at 0, LastBackupSuccess is set to 2.
setupMetrics ==
    [ LastBackupSuccess |-> Unknown, LastBackupStart |-> 0, LastBackupEnd |-> 0,
      LastBackupDuration |-> 0, SuccessfulBackups |-> 0, FailedBackups |-> 0 ]

\* Server, before the loop: the APIServer value and the metrics.
Init ==
    /\ lock = 0
    /\ config = StartConfig
    /\ server = 0
    /\ servers = <<>>
    /\ loopPc = "setup"
    /\ gor = <<>>
    /\ exited = FALSE
    /\ metrics = setupMetrics
    /\ now = 1
    /\ req = [r \in Slots |-> Idle]
    /\ nreq = 0
    /\ lastCreate = "none"
    /\ attempts = 0
    /\ accepted = StartConfig
    /\ remote = NoAdapter
    /\ objs = [bk \in Buckets \X StoredKeys |-> Absent]
    /\ written = {}
    /\ last = NoCall
    /\ ncalls = 0

----------------------------------------------------------------------------
(* The control loop of Server and the serving goroutines.                  *)

\* setupAPIServer as it would be if every generation were built from the
\* configuration Server was started with.
setupAPIServerAtStart(cfg) ==
    [config |-> StartConfig, Addr |-> StartConfig.ListenAddr, state |-> "new"]

\* setupAPIServer(config): the routes close over the value of the parameter
\* config, and the server's Addr is config.API.ListenAddr.
setupAPIServer(cfg) == [config |-> cfg, Addr |-> cfg.ListenAddr, state |-> "new"]

\* LoopSetup as it would be if every iteration of the loop built the metrics
\* anew.
LoopSetupNewMetrics ==
    /\ ~exited
    /\ loopPc = "setup"
    /\ servers' = Append(servers, setupAPIServer(config))
    /\ server' = Len(servers) + 1
    /\ loopPc' = "spawn"
    /\ metrics' = setupMetrics
    /\ UNCHANGED <<lock, config, gor, exited, now, req, nreq, lastCreate, attempts, accepted, adapterVars>>

\* api.server = api.setupAPIServer(api.config)
LoopSetup ==
    /\ ~exited
    /\ loopPc = "setup"
    /\ servers' = Append(servers, setupAPIServer(config))
    /\ server' = Len(servers) + 1
    /\ loopPc' = "spawn"
    /\ UNCHANGED <<lock, config, gor, exited, metrics, now, req,
                   nreq, lastCreate, attempts, accepted, adapterVars>>

\* go func() { ... }(): the goroutine exists, it has not run yet.
LoopSpawn ==
    /\ ~exited
    /\ loopPc = "spawn"
    /\ gor' = Append(gor, [pc |-> "spawned", srv |-> 0])
    /\ loopPc' = "recv"
    /\ UNCHANGED <<lock, config, server, servers, exited, metrics, now, req, nreq, lastCreate, attempts, accepted, adapterVars>>

\* The server object a serving goroutine calls ListenAndServe on: the closure
\* captures api, so it is api.server as it is when the goroutine runs.
ServedServer(j) == server

\* The body of the goroutine: api.server.ListenAndServe().  On a server that
\* was closed it returns http.ErrServerClosed at once; otherwise it binds Addr,
\* which fails when a server still listens there or when the environment
\* refuses the address; any error but ErrServerClosed ends in os.Exit(1).
ListenAndServe(j) ==
    /\ ~exited
    /\ j \in DOMAIN gor
    /\ gor[j].pc = "spawned"
    /\ LET s == ServedServer(j) IN
       \/ /\ servers[s].state = "closed"
          /\ gor' = [gor EXCEPT ![j] = [pc |-> "returned", srv |-> s]]
          /\ UNCHANGED <<servers, exited>>
       \/ /\ servers[s].state = "new"
          /\ \A g \in DOMAIN servers :
                servers[g].state = "listening" => servers[g].Addr # servers[s].Addr
          /\ servers' = [servers EXCEPT ![s].state = "listening"]
          /\ gor' = [gor EXCEPT ![j] = [pc |-> "serving", srv |-> s]]
          /\ UNCHANGED exited
       \/ /\ servers[s].state # "closed"
          /\ exited' = TRUE
          /\ gor' = [gor EXCEPT ![j] = [pc |-> "failed", srv |-> s]]
          /\ UNCHANGED servers
    /\ UNCHANGED <<lock, config, server, loopPc, metrics, now, req, nreq, lastCreate, attempts, accepted, adapterVars>>

\* _ = <-api.restart: the channel is unbuffered, the receive pairs with the
\* send of a handler blocked at api.restart <- true.
LoopRecv(r) ==
    /\ ~exited
    /\ loopPc = "recv"
    /\ req[r].pc = "send"
    /\ req' = [req EXCEPT ![r].pc = "sent"]
    /\ loopPc' = "close"
    /\ UNCHANGED <<lock, config, server, servers, gor, exited, metrics, now, nreq, lastCreate, attempts, accepted, adapterVars>>

\* LoopClose as it would be if the loop rebuilt the server without closing
\* the one that serves.
LoopCloseSkipped ==
    /\ ~exited
    /\ loopPc = "close"
    /\ loopPc' = "setup"
    /\ UNCHANGED <<lock, config, server, servers, gor, exited, metrics, now,
                   req, nreq, lastCreate, attempts, accepted, adapterVars>>

\* api.server.Close(): the listener is closed, and ListenAndServe of the
\* goroutine serving it returns http.ErrServerClosed.
LoopClose ==
    /\ ~exited
    /\ loopPc = "close"
    /\ servers' = [servers EXCEPT ![server].state = "closed"]
    /\ gor' = [j \in DOMAIN gor |->
                 IF gor[j].pc = "serving" /\ gor[j].srv = server
                 THEN [pc |-> "returned", srv |-> server]
                 ELSE gor[j]]
    /\ loopPc' = "setup"
    /\ UNCHANGED <<lock, config, server, exited, metrics, now, req, nreq, lastCreate, attempts, accepted, adapterVars>>

----------------------------------------------------------------------------
(* Requests.                                                               *)

\* The generation whose listener accepts connections.
Listening == {g \in DOMAIN servers : servers[g].state = "listening"}

\* HandlerConfig as it would be if the routes read api.config when called.
HandlerConfigLive(g) == config

\* The configuration a handler of generation g runs with: the parameter of
\* setupAPIServer its route closes over.
HandlerConfig(g) == servers[g].config

\* A slot a new handler goroutine can use: no handler runs in it.
Free(r) == req[r].pc \in {"idle", "done"}

\* A request is accepted by the listening server and routed; its handler
\* goroutine has not run yet.
Dispatch(r, k, b, w) ==
    /\ ~exited
    /\ Free(r)
    /\ nreq < MaxReqs
    /\ nreq' = nreq + 1
    /\ \E g \in Listening :
          req' = [req EXCEPT ![r] =
                    [Idle EXCEPT !.pc = "start", !.kind = k, !.gen = g,
                                 !.c = HandlerConfig(g), !.body = b, !.where = w]]
    /\ UNCHANGED <<lock, config, server, servers, loopPc, gor, exited, metrics,
                   now, lastCreate, attempts, accepted, adapterVars>>

Accept(r) ==
    \E k \in Kinds :
       \E b \in (IF k = "configUpdate" THEN Bodies ELSE {NoBody}) :
          \E w \in (IF k = "delete" THEN Wheres ELSE {"none"}) :
             Dispatch(r, k, b, w)

----------------------------------------------------------------------------
(* The handlers.                                                           *)

\* json.Marshal(APIResult{Type: "error", Message: msg})
ErrorResult(msg) == [Type |-> "error", Message |-> msg]
\* json.Marshal(APIResult{Type: "success", Message: msg})
SuccessResult(msg) == [Type |-> "success", Message |-> msg]

\* TryAcquire as it would be on a semaphore of weight 2.
TryAcquireWide == lock + 1 <= LockSize + 1

\* api.lock.TryAcquire(1)
TryAcquire == lock + 1 <= LockSize

\* Rejected as it would be if the handler tested the lock after its engine
\* call.
RejectedAfterCall(q) ==
    [q EXCEPT !.pc = "done", !.status = StatusServiceUnavailable,
              !.busy = TRUE, !.out = <<ErrorResult(ErrAPILocked)>>,
              !.calls = <<[op |-> q.kind, c |-> q.c]>>]

\* The exit of a handler that found the lock held: 503 and the lock error.
Rejected(q) ==
    [q EXCEPT !.pc = "done", !.status = StatusServiceUnavailable,
              !.busy = TRUE, !.out = <<ErrorResult(ErrAPILocked)>>]

\* Release as it would be without the defer: only the success path releases.
ReleaseOnSuccess(q) == IF q.locked /\ q.status = StatusOK THEN lock - 1 ELSE lock

\* The value of the semaphore after handler q has returned with its response
\* written: a handler that acquired the lock deferred api.lock.Release(1).
Release(q) == IF q.locked THEN lock - 1 ELSE lock

\* What the backup engine and json.Marshal can return.
Results == {"ok", "error"}

\* The response of a handler whose engine call returned res and whose
\* json.Marshal of the success result returned m.
Responded(q, res, m) ==
    IF res = "error"
    THEN [q EXCEPT !.pc = "done", !.status = StatusInternalServerError,
                   !.out = <<ErrorResult("engine error")>>]
    ELSE IF m = "error"
    THEN [q EXCEPT !.pc = "done", !.status = StatusInternalServerError,
                   !.out = <<ErrorResult("marshal error")>>]
    ELSE [q EXCEPT !.pc = "done", !.status = StatusOK,
                   !.out = <<SuccessResult("")>>]

\* A call of the backup engine with the configuration it is given.
Call(op, cfg) == [op |-> op, c |-> cfg]

\* The prologue of a handler guarded by the lock, up to its engine call.
GuardedEnter(r, k, calls) ==
    /\ ~exited
    /\ req[r].pc = "start"
    /\ req[r].kind = k
    /\ IF TryAcquire
       THEN /\ lock' = lock + 1
            /\ req' = [req EXCEPT ![r].pc = "engine", ![r].locked = TRUE,
                                  ![r].calls = calls]
       ELSE /\ lock' = lock
            /\ req' = [req EXCEPT ![r] = Rejected(req[r])]
    /\ UNCHANGED <<config, server, servers, loopPc, gor, exited, metrics, now, nreq, lastCreate, attempts, accepted, adapterVars>>

\* The engine call returns, the response is written, the handler returns.
EngineExit(r, k) ==
    /\ ~exited
    /\ req[r].pc = "engine"
    /\ req[r].kind = k
    /\ \E res \in Results, m \in Results :
          req' = [req EXCEPT ![r] = Responded(req[r], res, m)]
    /\ lock' = Release(req'[r])
    /\ UNCHANGED <<config, server, servers, loopPc, gor, exited, metrics, now, nreq, lastCreate, attempts, accepted, adapterVars>>

httpFreezeHandler(r) ==
    \/ GuardedEnter(r, "freeze", <<Call("Freeze", req[r].c)>>)
    \/ EngineExit(r, "freeze")

httpCleanHandler(r) ==
    \/ GuardedEnter(r, "clean", <<Call("Clean", req[r].c)>>)
    \/ EngineExit(r, "clean")

httpRestoreHandler(r) ==
    \/ GuardedEnter(r, "restore", <<Call("Restore", req[r].c)>>)
    \/ EngineExit(r, "restore")

\* httpUploadHandler and httpDownloadHandler call the engine straight away.
UnguardedEnter(r, k, calls) ==
    /\ ~exited
    /\ req[r].pc = "start"
    /\ req[r].kind = k
    /\ req' = [req EXCEPT ![r].pc = "engine", ![r].calls = calls,
                          ![r].busy = ~TryAcquire]
    /\ UNCHANGED <<lock, config, server, servers, loopPc, gor, exited, metrics,
                   now, nreq, lastCreate, attempts, accepted, adapterVars>>

httpUploadHandler(r) ==
    \/ UnguardedEnter(r, "upload", <<Call("Upload", req[r].c)>>)
    \/ EngineExit(r, "upload")

httpDownloadHandler(r) ==
    \/ UnguardedEnter(r, "download", <<Call("Download", req[r].c)>>)
    \/ EngineExit(r, "download")

\* DeleteCalls as it would be if the switch had no default case and an
\* unknown location were treated as 'local'.
DeleteCallsDefaultLocal(q) ==
    IF q.where = "remote" THEN <<Call("RemoveBackupRemote", q.c)>>
    ELSE <<Call("RemoveBackupLocal", q.c)>>

\* switch vars["where"]
DeleteCalls(q) ==
    IF q.where = "local" THEN <<Call("RemoveBackupLocal", q.c)>>
    ELSE IF q.where = "remote" THEN <<Call("RemoveBackupRemote", q.c)>>
    ELSE <<>>

httpDeleteHandler(r) ==
    \/ GuardedEnter(r, "delete", DeleteCalls(req[r]))
    \/ /\ req[r].where \in {"local", "remote"}
       /\ EngineExit(r, "delete")
    \/ /\ ~exited
       /\ req[r].pc = "engine"
       /\ req[r].kind = "delete"
       /\ req[r].where \notin {"local", "remote"}
       /\ req' = [req EXCEPT ![r] =
                    [req[r] EXCEPT !.pc = "done",
                       !.status = StatusInternalServerError,
                       !.out = <<ErrorResult("Backup location must be 'local' or 'remote'.")>>]]
       /\ lock' = Release(req'[r])
       /\ UNCHANGED <<config, server, servers, loopPc, gor, exited, metrics,
                      now, nreq, lastCreate, attempts, accepted, adapterVars>>

\* What time.Now() can read when the last reading was t.
Clock(t) == {u \in {t, t + 1} : u <= MaxClock}

\* CreateOutcome as it would be if the success were counted before
\* json.Marshal: a marshal error then counts the attempt twice.
CreateOutcomeCountedEarly(mt, res, m) ==
    IF res = "error"
    THEN [mt EXCEPT !.FailedBackups = @ + 1, !.LastBackupSuccess = 0]
    ELSE IF m = "error"
    THEN [mt EXCEPT !.SuccessfulBackups = @ + 1, !.FailedBackups = @ + 1,
                    !.LastBackupSuccess = 0]
    ELSE [mt EXCEPT !.SuccessfulBackups = @ + 1, !.LastBackupSuccess = 1]

\* CreateOutcome as it would be if the marshal-error path did not record the
\* failure.
CreateOutcomeEngineOnly(mt, res, m) ==
    IF res = "ok" /\ m = "ok"
    THEN [mt EXCEPT !.SuccessfulBackups = @ + 1, !.LastBackupSuccess = 1]
    ELSE IF res = "error"
    THEN [mt EXCEPT !.FailedBackups = @ + 1, !.LastBackupSuccess = 0]
    ELSE mt

\* The metrics after CreateBackup returned res and json.Marshal returned m,
\* before the deferred calls run.
CreateOutcome(mt, res, m) ==
    IF res = "ok" /\ m = "ok"
    THEN [mt EXCEPT !.SuccessfulBackups = @ + 1, !.LastBackupSuccess = 1]
    ELSE [mt EXCEPT !.FailedBackups = @ + 1, !.LastBackupSuccess = 0]

\* The deferred gauge updates of httpCreateHandler: their arguments were
\* evaluated when the defer statements ran (q.dDur, q.dEnd).
CreateDeferred(mt, q) ==
    [mt EXCEPT !.LastBackupEnd = q.dEnd, !.LastBackupDuration = q.dDur]

httpCreateHandler(r) ==
    \/ /\ ~exited
       /\ req[r].pc = "start"
       /\ req[r].kind = "create"
       /\ IF TryAcquire
          THEN /\ lock' = lock + 1
               /\ \E t \in Clock(now) : \E td \in Clock(t) : \E te \in Clock(td) :
                     /\ now' = te
                     /\ req' = [req EXCEPT ![r].pc = "engine", ![r].locked = TRUE,
                                   ![r].start = t, ![r].dDur = td - t,
                                   ![r].dEnd = te,
                                   ![r].calls = <<Call("CreateBackup", req[r].c)>>]
                     /\ metrics' = [metrics EXCEPT !.LastBackupStart = t]
               /\ attempts' = attempts + 1
          ELSE /\ lock' = lock
               /\ req' = [req EXCEPT ![r] = Rejected(req[r])]
               /\ UNCHANGED <<metrics, now, attempts>>
       /\ UNCHANGED <<config, server, servers, loopPc, gor, exited, nreq, lastCreate,
                      accepted, adapterVars>>
    \/ /\ ~exited
       /\ req[r].pc = "engine"
       /\ req[r].kind = "create"
       /\ \E res \in Results, m \in Results :
             /\ req' = [req EXCEPT ![r] = Responded(req[r], res, m)]
             /\ metrics' = CreateDeferred(CreateOutcome(metrics, res, m), req[r])
             /\ lastCreate' = IF res = "ok" /\ m = "ok" THEN "ok" ELSE "failed"
       /\ now' \in Clock(now)
       /\ lock' = Release(req'[r])
       /\ UNCHANGED <<config, server, servers, loopPc, gor, exited, nreq, attempts,
                      accepted, adapterVars>>

\* ConfigError as it would be without the call of validateConfig.
ConfigErrorUnvalidated(b) ==
    IF b.class = "unreadable" THEN "Error parsing POST form"
    ELSE IF b.class = "unparsable" THEN "Error parsing new config"
    ELSE ""

\* The checks of httpConfigUpdateHandler between the lock and the assignment:
\* the message of the error response, or "" when the body is accepted.
ConfigError(b) ==
    IF b.class = "unreadable" THEN "Error parsing POST form"
    ELSE IF b.class = "unparsable" THEN "Error parsing new config"
    ELSE IF ~validateConfig(b.cfg) THEN "Error validating new config"
    ELSE ""

\* The fields of Config, written one after the other by api.config = *newConfig.
ConfigFields == {"ListenAddr", "RemoteStorage"}

httpConfigUpdateHandler(r) ==
    \/ /\ ~exited
       /\ req[r].pc = "start"
       /\ req[r].kind = "configUpdate"
       /\ IF TryAcquire
          THEN /\ lock' = lock + 1
               /\ req' = [req EXCEPT ![r].pc = "locked", ![r].locked = TRUE]
          ELSE /\ lock' = lock
               /\ req' = [req EXCEPT ![r] = Rejected(req[r])]
       /\ UNCHANGED <<config, server, servers, loopPc, gor, exited, metrics,
                      now, nreq, lastCreate, attempts, accepted, adapterVars>>
    \/ /\ ~exited
       /\ req[r].pc = "locked"
       /\ ConfigError(req[r].body) # ""
       /\ req' = [req EXCEPT ![r] =
                    [req[r] EXCEPT !.pc = "done",
                       !.status = StatusInternalServerError,
                       !.out = <<ErrorResult(ConfigError(req[r].body))>>]]
       /\ lock' = Release(req'[r])
       /\ UNCHANGED <<config, server, servers, loopPc, gor, exited, metrics,
                      now, nreq, lastCreate, attempts, accepted, adapterVars>>
    \/ /\ ~exited
       /\ req[r].pc = "locked"
       /\ ConfigError(req[r].body) = ""
       /\ \E f \in ConfigFields :
             config' = [config EXCEPT ![f] = req[r].body.cfg[f]]
       /\ accepted' = req[r].body.cfg
       /\ req' = [req EXCEPT ![r].pc = "assign"]
       /\ UNCHANGED <<lock, server, servers, loopPc, gor, exited, metrics, now, nreq, lastCreate, attempts, adapterVars>>
    \/ /\ ~exited
       /\ req[r].pc = "assign"
       /\ config' = req[r].body.cfg
       /\ req' = [req EXCEPT ![r].pc = "send"]
       /\ UNCHANGED <<lock, server, servers, loopPc, gor, exited, metrics, now, nreq, lastCreate, attempts, accepted, adapterVars>>
    \/ /\ ~exited
       /\ req[r].pc = "sent"
       /\ req' = [req EXCEPT ![r].pc = "done", ![r].status = StatusOK]
       /\ lock' = Release(req'[r])
       /\ UNCHANGED <<config, server, servers, loopPc, gor, exited, metrics,
                      now, nreq, lastCreate, attempts, accepted, adapterVars>>

\* Answer as it would be if the read-only handlers took the operation lock.
AnswerGuarded(r, k, st, out) ==
    /\ ~exited
    /\ req[r].pc = "start"
    /\ req[r].kind = k
    /\ IF TryAcquire
       THEN req' = [req EXCEPT ![r].pc = "done", ![r].status = st, ![r].out = out]
       ELSE req' = [req EXCEPT ![r] = Rejected(req[r])]
    /\ UNCHANGED <<lock, config, server, servers, loopPc, gor, exited, metrics,
                   now, nreq, lastCreate, attempts, accepted, adapterVars>>

\* A handler that takes no lock and answers in one step with status st and
\* the lines out.
Answer(r, k, st, out) ==
    /\ ~exited
    /\ req[r].pc = "start"
    /\ req[r].kind = k
    /\ req' = [req EXCEPT ![r].pc = "done", ![r].status = st, ![r].out = out,
                          ![r].busy = ~TryAcquire]
    /\ UNCHANGED <<lock, config, server, servers, loopPc, gor, exited, metrics,
                   now, nreq, lastCreate, attempts, accepted, adapterVars>>

\* n lines, each the JSON object of one item
Lines(type, n) == [i \in 1 .. n |-> [Type |-> type, Message |-> "item"]]

httpRootHandler(r) ==
    Answer(r, "root", StatusOK, <<[Type |-> "html", Message |-> "rootHtml"]>>)

\* registerMetricsHandlers: /health
healthHandler(r) ==
    Answer(r, "health", StatusOK, <<[Type |-> "text", Message |-> "OK"]>>)

httpConfigDefaultHandler(r) ==
    \E m \in Results :
       IF m = "error"
       THEN Answer(r, "configDefault", StatusInternalServerError,
                   <<ErrorResult("marshal error")>>)
       ELSE Answer(r, "configDefault", StatusOK, <<SuccessResult("DefaultConfig")>>)

httpConfigHandler(r) ==
    \E m \in Results :
       IF m = "error"
       THEN Answer(r, "config", StatusInternalServerError,
                   <<ErrorResult("marshal error")>>)
       ELSE Answer(r, "config", StatusOK, <<SuccessResult("Config")>>)

\* w.WriteHeader(st) after sent lines went out with fmt.Fprintln: the first
\* write sent the header with 200, a later WriteHeader changes nothing.
WriteHeader(sent, st) == IF sent > 0 THEN StatusOK ELSE st

\* The output of a loop over lines in which json.Marshal fails at item i: the
\* items before i were written, then the error result.
LinesUntilError(lines, i) ==
    SubSeq(lines, 1, i - 1) \o <<ErrorResult("marshal error")>>

\* The loop of httpTablesHandler and httpListHandler over the items: all of
\* them are written, or json.Marshal fails at one of them.
WriteLines(r, k, lines) ==
    \/ Answer(r, k, StatusOK, lines)
    \/ \E i \in DOMAIN lines :
          Answer(r, k, WriteHeader(i - 1, StatusInternalServerError),
                 LinesUntilError(lines, i))

httpTablesHandler(r) ==
    \/ Answer(r, "tables", StatusInternalServerError,
              <<ErrorResult("getTables error")>>)
    \/ \E n \in 0 .. MaxItems : WriteLines(r, "tables", Lines("table", n))

httpListHandler(r) ==
    \/ Answer(r, "list", StatusInternalServerError,
              <<ErrorResult("ListLocalBackups error")>>)
    \/ /\ req[r].c.RemoteStorage # "none"
       /\ Answer(r, "list", StatusInternalServerError,
                 <<ErrorResult("getRemoteBackups error")>>)
    \/ \E nl \in 0 .. MaxItems :
          \E nr \in (IF req[r].c.RemoteStorage # "none" THEN 0 .. MaxItems ELSE {0}) :
             WriteLines(r, "list", Lines("local", nl) \o Lines("remote", nr))

----------------------------------------------------------------------------

Handlers(r) ==
    \/ httpRootHandler(r)
    \/ healthHandler(r)
    \/ httpConfigDefaultHandler(r)
    \/ httpConfigHandler(r)
    \/ httpConfigUpdateHandler(r)
    \/ httpTablesHandler(r)
    \/ httpListHandler(r)
    \/ httpCreateHandler(r)
    \/ httpFreezeHandler(r)
    \/ httpCleanHandler(r)
    \/ httpUploadHandler(r)
    \/ httpRestoreHandler(r)
    \/ httpDownloadHandler(r)
    \/ httpDeleteHandler(r)

Loop == LoopSetup \/ LoopSpawn \/ (\E r \in Slots : LoopRecv(r)) \/ LoopClose

Next ==
    \/ Loop
    \/ \E j \in 1 .. (MaxReqs + 1) : ListenAndServe(j)
    \/ \E r \in Slots : Accept(r)
    \/ \E r \in Slots : Handlers(r)

Spec == Init /\ [][Next]_vars

\* The Go scheduler runs every runnable goroutine: the control loop, the
\* serving goroutines and the handlers all make progress; an engine call
\* returns.  No request has to arrive.
Fairness ==
    /\ WF_vars(Loop)
    /\ \A j \in 1 .. (MaxReqs + 1) : WF_vars(ListenAndServe(j))
    /\ \A r \in Slots : WF_vars(Handlers(r))

LiveSpec == Init /\ [][Next]_vars /\ Fairness

TypeOK ==
    /\ lock \in 0 .. LockSize
    /\ server \in 0 .. Len(servers)
    /\ exited \in BOOLEAN
    /\ now \in 1 .. MaxClock
    /\ Len(servers) <= MaxReqs + 1
    /\ metrics.SuccessfulBackups + metrics.FailedBackups <= nreq
    /\ \A r \in Slots : req[r].kind \in Kinds \cup {"none"}

----------------------------------------------------------------------------
(* The remote storage adapters (src/pkg/chbackup/s3.go, cos.go and the GCS  *)
(* adapter) and the object stores behind them.  An adapter call is one     *)
(* step: the backend requests it makes and the value it returns.           *)

\* bucket := Config.Bucket; if len(overrideBucket) > 0 { bucket = overrideBucket }
UseBucket(ob) == IF ob # "" THEN ob ELSE remote.Config.Bucket

\* S3.Connect, GCS.Connect: the session or client is built, the bucket is
\* chosen per call.  COS.Connect: the client is bound to the bucket URL,
\* Config.RowUrl or overrideBucket.
Connect(kind, cfg, ob) ==
    /\ remote = NoAdapter
    /\ remote' = [kind |-> kind,
                  Config |-> cfg,
                  client |-> IF kind = "COS"
                             THEN (IF ob # "" THEN ob ELSE ConfigBucket)
                             ELSE ""]
    /\ UNCHANGED <<objs, written, last, ncalls, serverVars>>

S3Connect(cfg, ob) == Connect("S3", cfg, ob)
GCSConnect(cfg, ob) == Connect("GCS", cfg, ob)
COSConnect(cfg, ob) == Connect("COS", cfg, ob)

\* An adapter call op(key, overrideBucket[, data]) that addressed bucket, got
\* resp from the backend and returned err (and val).
Called(kind, op, key, ob, data, host, bucket, resp, err, val) ==
    /\ remote.kind = kind
    /\ ncalls < MaxCalls
    /\ ncalls' = ncalls + 1
    /\ \E n \in Tries(kind, resp) :
          last' = [NoCall EXCEPT !.op = op, !.key = key, !.ob = ob, !.data = data,
                                 !.host = host, !.bucket = bucket, !.resp = resp,
                                 !.err = err, !.val = val, !.tries = n]
    /\ UNCHANGED <<remote, serverVars>>

\* The backend stores data under key in bucket.
Store(bucket, key, data) ==
    /\ objs' = [objs EXCEPT ![<<bucket, key>>] = data]
    /\ written' = written \cup {<<bucket, key>>}

\* The backend removes the object under key in bucket, if there is one.
Remove(bucket, key) ==
    /\ objs' = [objs EXCEPT ![<<bucket, key>>] = Absent]
    /\ UNCHANGED written

(* S3 *)

\* svc.HeadObject: a missing object is a 404 without a body, which the SDK
\* reports as an awserr.Error with code "NotFound".
HeadObject(bucket, key, out) ==
    IF out # Nil THEN out
    ELSE IF objs[<<bucket, key>>] = Absent THEN Err("awserr", "NotFound")
    ELSE Nil

\* svc.GetObjectRequest / req.Send: a missing object is "NoSuchKey".
GetObject(bucket, key, out) ==
    IF out # Nil THEN out
    ELSE IF objs[<<bucket, key>>] = Absent THEN Err("awserr", "NoSuchKey")
    ELSE Nil

\* S3IsNotFound as it would be if GetFile looked for the code of GetObject.
S3IsNotFoundNoSuchKey(err) == err.lib = "awserr" /\ err.code = "NoSuchKey"

\* aerr, ok := err.(awserr.Error); ok && aerr.Code() == "NotFound"
S3IsNotFound(err) == err.lib = "awserr" /\ err.code = "NotFound"

S3GetFile(key, ob, out) ==
    LET bucket == UseBucket(ob)
        resp == HeadObject(bucket, key, out)
        err == IF resp = Nil THEN Nil
               ELSE IF S3IsNotFound(resp) THEN ErrNotFound
               ELSE resp
    IN /\ Called("S3", "GetFile", key, ob, Absent, "", bucket, resp, err,
                 IF err = Nil THEN objs[<<bucket, key>>] ELSE Absent)
       /\ UNCHANGED <<objs, written>>

\* s3.New(s.session).DeleteObject(params): deleting a key that holds no
\* object succeeds.
S3DeleteFile(key, ob, out) ==
    LET bucket == UseBucket(ob)
        resp == out
        err == IF resp # Nil THEN Wrapf(resp) ELSE Nil
    IN /\ Called("S3", "DeleteFile", key, ob, Absent, "", bucket, resp, err, Absent)
       /\ IF resp = Nil THEN Remove(bucket, key) ELSE UNCHANGED <<objs, written>>

\* The key S3.PutFile uploads to when os.Hostname() returned hostname.
S3PutKey(key, hostname) ==
    IF remote.Config.PathHostnameInclude /\ hostname # ""
    THEN HostnameKey(key, hostname)
    ELSE key

S3PutFile(key, ob, data, hostname, out) ==
    LET bucket == UseBucket(ob)
        resp == out
    IN /\ Called("S3", "PutFile", key, ob, data, hostname, bucket, resp, resp, Absent)
       /\ IF resp = Nil
          THEN Store(bucket, S3PutKey(key, hostname), data)
          ELSE UNCHANGED <<objs, written>>

S3GetFileReader(key, ob, out) ==
    LET bucket == UseBucket(ob)
        resp == GetObject(bucket, key, out)
    IN /\ Called("S3", "GetFileReader", key, ob, Absent, "", bucket, resp, resp,
                 IF resp = Nil THEN objs[<<bucket, key>>] ELSE Absent)
       /\ UNCHANGED <<objs, written>>

(* GCS *)

\* Attrs, NewReader and Delete of an object handle: a missing object is
\* storage.ErrObjectNotExist.
ObjectHandle(bucket, key, out) ==
    IF out # Nil THEN out
    ELSE IF objs[<<bucket, key>>] = Absent THEN Err("storage", "ErrObjectNotExist")
    ELSE Nil

\* err == storage.ErrObjectNotExist
GCSIsNotFound(err) == err = Err("storage", "ErrObjectNotExist")

GCSGetFile(key, ob, out) ==
    LET bucket == UseBucket(ob)
        resp == ObjectHandle(bucket, key, out)
        err == IF resp = Nil THEN Nil
               ELSE IF GCSIsNotFound(resp) THEN ErrNotFound
               ELSE resp
    IN /\ Called("GCS", "GetFile", key, ob, Absent, "", bucket, resp, err,
                 IF err = Nil THEN objs[<<bucket, key>>] ELSE Absent)
       /\ UNCHANGED <<objs, written>>

\* return object.Delete(ctx)
GCSDeleteFile(key, ob, out) ==
    LET bucket == UseBucket(ob)
        resp == ObjectHandle(bucket, key, out)
    IN /\ Called("GCS", "DeleteFile", key, ob, Absent, "", bucket, resp, resp, Absent)
       /\ IF resp = Nil THEN Remove(bucket, key) ELSE UNCHANGED <<objs, written>>

\* io.Copy(writer, r) and writer.Close(): the object exists once Close
\* returned nil.
GCSPutFile(key, ob, data, hostname, out) ==
    LET bucket == UseBucket(ob)
        resp == out
    IN /\ Called("GCS", "PutFile", key, ob, data, hostname, bucket, resp, resp, Absent)
       /\ IF resp = Nil
          THEN Store(bucket, key, data)
          ELSE UNCHANGED <<objs, written>>

GCSGetFileReader(key, ob, out) ==
    LET bucket == UseBucket(ob)
        resp == ObjectHandle(bucket, key, out)
    IN /\ Called("GCS", "GetFileReader", key, ob, Absent, "", bucket, resp, resp,
                 IF resp = Nil THEN objs[<<bucket, key>>] ELSE Absent)
       /\ UNCHANGED <<objs, written>>

(* COS: every request goes to the bucket the client was connected to. *)

\* c.client.Object.Get: a missing object is a *cos.ErrorResponse with code
\* "NoSuchKey".
ObjectGet(key, out) ==
    IF out # Nil THEN out
    ELSE IF objs[<<remote.client, key>>] = Absent
    THEN Err("cos.ErrorResponse", "NoSuchKey")
    ELSE Nil

\* cosErr, ok := err.(*cos.ErrorResponse); ok && cosErr.Code == "NoSuchKey"
COSIsNotFound(err) == err.lib = "cos.ErrorResponse" /\ err.code = "NoSuchKey"

COSGetFile(key, ob, out) ==
    LET resp == ObjectGet(key, out)
        err == IF resp = Nil THEN Nil
               ELSE IF COSIsNotFound(resp) THEN ErrNotFound
               ELSE resp
    IN /\ Called("COS", "GetFile", key, ob, Absent, "", remote.client, resp, err,
                 IF err = Nil THEN objs[<<remote.client, key>>] ELSE Absent)
       /\ UNCHANGED <<objs, written>>

\* c.client.Object.Delete: for a key that holds no object the service answers
\* with success or with the "NoSuchKey" error response.
ObjectDelete(key, out) ==
    IF out # Nil THEN {out}
    ELSE IF objs[<<remote.client, key>>] = Absent
    THEN {Nil, Err("cos.ErrorResponse", "NoSuchKey")}
    ELSE {Nil}

COSDeleteFile(key, ob, out) ==
    /\ remote.kind = "COS"
    /\ \E resp \in ObjectDelete(key, out) :
       /\ Called("COS", "DeleteFile", key, ob, Absent, "", remote.client, resp,
                 resp, Absent)
       /\ IF resp = Nil
          THEN Remove(remote.client, key)
          ELSE UNCHANGED <<objs, written>>

\* c.client.Object.Put(context.Background(), key, r, nil)
COSPutFile(key, ob, data, hostname, out) ==
    LET resp == out
    IN /\ Called("COS", "PutFile", key, ob, data, hostname, remote.client, resp,
                 resp, Absent)
       /\ IF resp = Nil
          THEN Store(remote.client, key, data)
          ELSE UNCHANGED <<objs, written>>

COSGetFileReader(key, ob, out) ==
    LET resp == ObjectGet(key, out)
    IN /\ Called("COS", "GetFileReader", key, ob, Absent, "", remote.client, resp,
                 resp, IF resp = Nil THEN objs[<<remote.client, key>>] ELSE Absent)
       /\ UNCHANGED <<objs, written>>

(* Walk.  The backend lists the objects of a bucket, under a prefix when the
   request names one, in an order of its own and in pages of at most ps
   objects; a listing takes dur seconds. *)

RECURSIVE Ordered(_)
Ordered(set) ==
    IF set = {} THEN <<>>
    ELSE LET k == CHOOSE x \in set : TRUE IN <<k>> \o Ordered(set \ {k})

\* the objects of the bucket under the prefix, in the backend's order
Listing(bucket, prefix) ==
    Ordered({ k \in StoredKeys : /\ objs[<<bucket, k>>] # Absent
                                 /\ Under(k, prefix) })

\* the number of pages of a listing (an empty listing is one empty page)
NumPages(list, ps) == IF Len(list) = 0 THEN 1 ELSE (Len(list) + ps - 1) \div ps

\* the objects on the first n pages
FirstPages(list, ps, n) ==
    SubSeq(list, 1, IF n * ps < Len(list) THEN n * ps ELSE Len(list))

\* The record of a Walk: the bucket and prefix of the listing request, the
\* objects passed to process in order, the error returned, when it was
\* returned, and whether the listing was then still running.
Walked(kind, ob, path, bucket, prefix, visited, resp, dur, at, background) ==
    /\ remote.kind = kind
    /\ ncalls < MaxCalls
    /\ ncalls' = ncalls + 1
    /\ \E n \in Tries(kind, resp) :
          last' = [NoCall EXCEPT !.op = "Walk", !.ob = ob, !.path = path,
                                 !.bucket = bucket, !.prefix = prefix,
                                 !.visited = visited, !.resp = resp, !.err = resp,
                                 !.tries = n, !.dur = dur, !.at = at,
                                 !.background = background]
    /\ UNCHANGED <<remote, objs, written, serverVars>>

UsePath(overridePath) ==
    IF Len(overridePath) > 0 THEN overridePath ELSE remote.Config.Path

\* S3.Walk, S3.remotePager: ListObjectsV2Pages over bucket and Prefix; the
\* wrapper returns true for every page, so the pages are drained until the
\* last one or until a request fails, after n pages.  No deadline.
S3Walk(ob, overridePath, ps, dur, out, n) ==
    LET bucket == UseBucket(ob)
        usePath == UsePath(overridePath)
        list == Listing(bucket, usePath)
    IN /\ remote.kind = "S3"
       /\ IF out = Nil THEN n = NumPages(list, ps) ELSE n < NumPages(list, ps)
       /\ Walked("S3", ob, overridePath, bucket, usePath, FirstPages(list, ps, n),
                 out, dur, dur, FALSE)

\* GCS.Walk: Bucket(bucket).Objects(ctx, nil): a nil query, so every object
\* of the bucket is listed; it.Next() is called until iterator.Done or an
\* error.  No deadline.
GCSWalk(ob, overridePath, ps, dur, out, n) ==
    LET bucket == UseBucket(ob)
        list == Listing(bucket, <<>>)
    IN /\ remote.kind = "GCS"
       /\ IF out = Nil THEN n = NumPages(list, ps) ELSE n < NumPages(list, ps)
       /\ Walked("GCS", ob, overridePath, bucket, <<>>, FirstPages(list, ps, n),
                 out, dur, dur, FALSE)

\* COS.Walk: one Bucket.Get with Prefix usePath on the client's bucket, and
\* process for res.Contents, the first page.  The client was built with
\* http.Client{Timeout: Config.Timeout seconds}: a request still running at
\* the timeout is cancelled and fails with the transport's timeout error.
COSWalk(ob, overridePath, ps, dur, out) ==
    LET usePath == UsePath(overridePath)
        list == Listing(remote.client, usePath)
        expired == remote.Config.Timeout > 0 /\ dur > remote.Config.Timeout
        resp == IF expired THEN Err("net", "timeout") ELSE out
    IN /\ remote.kind = "COS"
       /\ Walked("COS", ob, overridePath, remote.client, usePath,
                 IF resp = Nil THEN FirstPages(list, ps, 1) ELSE <<>>,
                 resp, dur, IF expired THEN remote.Config.Timeout ELSE dur, FALSE)

(* The adapter calls of the backup engine. *)

Walk(ob, overridePath) ==
    \E ps \in 1 .. MaxPage, dur \in 1 .. MaxDur :
       \/ \E out \in Outcomes("S3"), n \in 0 .. Cardinality(StoredKeys) :
             S3Walk(ob, overridePath, ps, dur, out, n)
       \/ \E out \in Outcomes("GCS"), n \in 0 .. Cardinality(StoredKeys) :
             GCSWalk(ob, overridePath, ps, dur, out, n)
       \/ \E out \in Outcomes("COS") : COSWalk(ob, overridePath, ps, dur, out)

GetFile(key, ob) ==
    \/ \E out \in Outcomes("S3") : S3GetFile(key, ob, out)
    \/ \E out \in Outcomes("GCS") : GCSGetFile(key, ob, out)
    \/ \E out \in Outcomes("COS") : COSGetFile(key, ob, out)

DeleteFile(key, ob) ==
    \/ \E out \in Outcomes("S3") : S3DeleteFile(key, ob, out)
    \/ \E out \in Outcomes("GCS") : GCSDeleteFile(key, ob, out)
    \/ \E out \in Outcomes("COS") : COSDeleteFile(key, ob, out)

PutFile(key, ob, data) ==
    \E hostname \in Hostnames :
       \/ \E out \in Outcomes("S3") : S3PutFile(key, ob, data, hostname, out)
       \/ \E out \in Outcomes("GCS") : GCSPutFile(key, ob, data, hostname, out)
       \/ \E out \in Outcomes("COS") : COSPutFile(key, ob, data, hostname, out)

GetFileReader(key, ob) ==
    \/ \E out \in Outcomes("S3") : S3GetFileReader(key, ob, out)
    \/ \E out \in Outcomes("GCS") : GCSGetFileReader(key, ob, out)
    \/ \E out \in Outcomes("COS") : COSGetFileReader(key, ob, out)

AdapterNext ==
    \/ \E cfg \in Configs, ob \in Overrides :
          \/ S3Connect(cfg, ob)
          \/ GCSConnect(cfg, ob)
          \/ COSConnect(cfg, ob)
    \/ /\ ncalls < MaxCalls
       /\ \E key \in Keys, ob \in Overrides :
             \/ GetFile(key, ob)
             \/ DeleteFile(key, ob)
             \/ GetFileReader(key, ob)
             \/ \E data \in Payloads : PutFile(key, ob, data)
    \/ /\ ncalls < MaxCalls
       /\ \E ob \in Overrides, overridePath \in OverridePaths : Walk(ob, overridePath)

AdapterSpec == Init /\ [][AdapterNext]_vars

----------------------------------------------------------------------------
(* The claims.                                                             *)

\* A mutating request whose operation is in progress: its engine call has
\* been made and has not returned, or, for the config update, the handler is
\* between its TryAcquire and its return.
Executing(r) ==
    /\ req[r].kind \in MutatingKinds
    /\ req[r].pc \in {"engine", "locked", "assign", "send", "sent"}
    /\ req[r].kind # "configUpdate" => req[r].calls # <<>>

\* C1: in every reachable state at most one mutating operation (create,
\* freeze, clean, upload, download, restore, delete, config-update) is
\* executing its backup-engine call.
C1_OneMutatingOperation == Cardinality({r \in Slots : Executing(r)}) <= 1

\* C2: a call to a mutating endpoint whose handler begins while the operation
\* lock is held ends at once with 503 and the lock error, and makes no engine
\* call.
C2_SecondCallRejected ==
    \A r \in Slots :
       (req[r].kind \in MutatingKinds /\ req[r].pc \notin {"idle", "start"} /\ req[r].busy)
       => /\ req[r].pc = "done"
          /\ req[r].status = StatusServiceUnavailable
          /\ req[r].out = <<ErrorResult(ErrAPILocked)>>
          /\ req[r].calls = <<>>

\* C3: whenever a handler that acquired the operation lock returns, on any
\* exit path, the lock is free afterwards and the next TryAcquire succeeds.
C3_LockFreeAfterReturn ==
    [][\A r \in Slots :
          (req[r].locked /\ req[r].pc \notin {"idle", "done"} /\ req'[r].pc = "done")
          => (lock' = 0 /\ TryAcquire')]_vars

\* a handler that held the lock has returned an error (500) and the lock is free
C3_Witness ==
    \E r \in Slots :
       /\ req[r].pc = "done"
       /\ req[r].locked
       /\ req[r].kind = "delete"
       /\ req[r].where = "other"
       /\ req[r].status = StatusInternalServerError
       /\ lock = 0

\* C4: a step of a read-only handler (list, tables, config, default config,
\* index, health) leaves the lock as it is, whether held or not, and takes the
\* handler to its end with a response that is not the lock error.
C4_ReadOnlyIgnoresLock ==
    [][\A r \in Slots :
          (req[r].kind \in ReadOnlyKinds /\ req[r].pc = "start" /\ req'[r] # req[r])
          => /\ lock' = lock
             /\ req'[r].pc = "done"
             /\ req'[r].status \in {StatusOK, StatusInternalServerError}
             /\ ~req'[r].locked
             /\ req'[r].out # <<ErrorResult(ErrAPILocked)>>]_vars

\* a read-only handler ran while the lock was held, answered 200, and the lock
\* is still held
C4_Witness ==
    \E r \in Slots :
       /\ req[r].kind = "list"
       /\ req[r].pc = "done"
       /\ req[r].busy
       /\ req[r].status = StatusOK
       /\ lock = 1

\* C5: a config-update handler whose body cannot be read, cannot be parsed or
\* fails validateConfig ends with an error response; none of its steps sends
\* a reload signal or changes api.config, api.server or any server.
C5_InvalidConfigRejected ==
    [][\A r \in Slots :
          (/\ req[r].kind = "configUpdate"
           /\ ~ValidBody(req[r].body)
           /\ req[r].pc \notin {"idle", "done"}
           /\ req'[r] # req[r])
          => /\ config' = config
             /\ server' = server
             /\ servers' = servers
             /\ loopPc' = loopPc
             /\ req'[r].pc \in {"locked", "done"}
             /\ req'[r].pc = "done" =>
                   /\ req'[r].status \in {StatusInternalServerError,
                                          StatusServiceUnavailable}
                   /\ Len(req'[r].out) = 1
                   /\ req'[r].out[1].Type = "error"]_vars

\* a configuration that fails validateConfig was refused with 500 while the
\* start-up configuration is still the serving one
C5_Witness ==
    \E r \in Slots :
       /\ req[r].kind = "configUpdate"
       /\ req[r].pc = "done"
       /\ req[r].body.class = "yaml"
       /\ ~validateConfig(req[r].body.cfg)
       /\ req[r].status = StatusInternalServerError
       /\ req[r].out = <<ErrorResult("Error validating new config")>>
       /\ config = StartConfig
       /\ server = 1
       /\ servers[1].state = "listening"

\* A config update whose configuration was accepted while it holds the lock.
Accepted(r) ==
    /\ req[r].kind = "configUpdate"
    /\ req[r].pc = "locked"
    /\ ValidBody(req[r].body)

\* A generation later than the one that took request r serves the
\* configuration r submitted, and the generation that took r is closed.
Reloaded(r) ==
    /\ req[r].kind = "configUpdate"
    /\ req[r].pc \in {"sent", "done"}
    /\ \E g \in DOMAIN servers :
          /\ g > req[r].gen
          /\ servers[req[r].gen].state = "closed"
          /\ servers[g].config = req[r].body.cfg
          /\ servers[g].Addr = req[r].body.cfg.ListenAddr
          /\ servers[g].state = "listening"

\* C6: after a valid configuration is submitted to a handler that acquired
\* the lock, eventually the handler has returned with 200 and a later
\* generation built from that configuration is serving (as long as the slot
\* of the request has not been taken by a new request).
C6_ReloadCompletes ==
    \A r \in Slots :
       Accepted(r) ~>
          \/ /\ req[r].pc = "done"
             /\ req[r].status = StatusOK
             /\ Reloaded(r)
          \/ req[r].pc = "start"

\* C7: a step that closes a server, builds one or rebinds api.server is a
\* step of the control loop alone (no handler moves in it); every server but
\* the newest is closed, so at most one generation is open.
C7_OnlyLoopOwnsServer ==
    /\ [](\A g \in DOMAIN servers : g < Len(servers) => servers[g].state = "closed")
    /\ [](Cardinality(Listening) <= 1)
    /\ [][(\/ server' # server
           \/ Len(servers') # Len(servers)
           \/ \E g \in DOMAIN servers : servers[g].state # "closed" /\ servers'[g].state = "closed")
          => (req' = req /\ loopPc \in {"setup", "close"} /\ loopPc' # loopPc)]_vars

\* the second generation serves and the first one is closed
C7_Witness ==
    /\ Len(servers) = 2
    /\ server = 2
    /\ servers[1].state = "closed"
    /\ servers[2].state = "listening"

\* C8: a built server keeps the configuration and address it was built with,
\* and every handler it dispatched runs, and calls the engine, with that
\* configuration, whatever api.config has become.
C8_GenerationImmutable ==
    /\ [](\A r \in Slots :
            req[r].pc \notin {"idle", "done"} =>
               /\ req[r].c = servers[req[r].gen].config
               /\ \A i \in DOMAIN req[r].calls :
                     req[r].calls[i].c = servers[req[r].gen].config)
    /\ [][\A g \in DOMAIN servers :
             /\ servers'[g].config = servers[g].config
             /\ servers'[g].Addr = servers[g].Addr]_vars

\* a handler of the serving generation holds the lock and runs its engine
\* call with the old configuration after api.config was replaced
C8_Witness ==
    \E r \in Slots :
       /\ req[r].pc = "engine"
       /\ req[r].locked
       /\ req[r].gen = server
       /\ servers[server].state = "listening"
       /\ config # servers[server].config
       /\ req[r].calls[1].c = StartConfig
       /\ config \in ParsedConfigs

\* handlers blocked in api.restart <- true
Pending == {r \in Slots : req[r].pc = "send"}

\* a step in which the handler of a valid config update begins while the
\* reload signal of another request is pending
SecondReload(r) ==
    /\ req[r].kind = "configUpdate"
    /\ ValidBody(req[r].body)
    /\ req[r].pc = "start"
    /\ Pending \ {r} # {}
    /\ req'[r] # req[r]

\* C9 as stated: at most one signal is pending, and a second valid reload
\* request that arrives while one is pending is neither rejected nor dropped:
\* its handler goes on towards its own send.
C9_SecondReloadBlocks ==
    /\ [](Cardinality(Pending) <= 1)
    /\ [][\A r \in Slots : SecondReload(r) => req'[r].pc \in {"locked", "assign", "send"}]_vars

\* C9 amended: at most one signal is pending, and a second valid reload
\* request that arrives while one is pending is rejected at once with the
\* lock error (503); it does not block and sends no signal.
C9_SecondReloadRejected ==
    /\ [](Cardinality(Pending) <= 1)
    /\ [][\A r \in Slots :
             SecondReload(r) =>
                /\ req'[r].pc = "done"
                /\ req'[r].status = StatusServiceUnavailable
                /\ req'[r].out = <<ErrorResult(ErrAPILocked)>>
                /\ config' = config]_vars

\* a valid reload request was rejected while the signal of another is pending
C9_Witness ==
    \E r \in Slots : \E q \in Slots :
       /\ q # r
       /\ req[q].pc = "send"
       /\ req[r].kind = "configUpdate"
       /\ ValidBody(req[r].body)
       /\ req[r].pc = "done"
       /\ req[r].status = StatusServiceUnavailable

\* C10: LastBackupSuccess is 2 until a create call that ran CreateBackup has
\* completed, then 0 or 1 as the most recently completed one failed or
\* succeeded; the step completing a call adds exactly 1 to the failure
\* counter when it fails and exactly 1 to the success counter when it succeeds.
C10_LastBackupSuccess ==
    /\ [](metrics.LastBackupSuccess =
             (IF lastCreate = "none" THEN Unknown ELSE IF lastCreate = "ok" THEN 1 ELSE 0))
    /\ [][\A r \in Slots :
             (req[r].kind = "create" /\ req[r].pc = "engine" /\ req'[r].pc = "done")
             => IF req'[r].status = StatusOK
                THEN /\ metrics'.SuccessfulBackups = metrics.SuccessfulBackups + 1
                     /\ metrics'.FailedBackups = metrics.FailedBackups
                     /\ metrics'.LastBackupSuccess = 1
                ELSE /\ metrics'.FailedBackups = metrics.FailedBackups + 1
                     /\ metrics'.SuccessfulBackups = metrics.SuccessfulBackups
                     /\ metrics'.LastBackupSuccess = 0]_vars

\* a failed create call was followed by a successful one
C10_Witness ==
    /\ lastCreate = "ok"
    /\ metrics.LastBackupSuccess = 1
    /\ metrics.FailedBackups = 1
    /\ metrics.SuccessfulBackups = 1

\* create handlers between their TryAcquire and their return
CreatesInFlight == {r \in Slots : req[r].kind = "create" /\ req[r].pc = "engine"}

\* C11: the two counters together count the create-backup attempts (calls that
\* took the lock and ran CreateBackup) that have completed: their sum plus the
\* attempts still running equals the attempts made, and a step changes the
\* counters only by adding 1 to exactly one of them.
C11_OneCounterPerAttempt ==
    /\ [](metrics.SuccessfulBackups + metrics.FailedBackups
             + Cardinality(CreatesInFlight) = attempts)
    /\ [][\/ /\ metrics'.SuccessfulBackups = metrics.SuccessfulBackups
             /\ metrics'.FailedBackups = metrics.FailedBackups
          \/ /\ metrics'.SuccessfulBackups = metrics.SuccessfulBackups + 1
             /\ metrics'.FailedBackups = metrics.FailedBackups
          \/ /\ metrics'.SuccessfulBackups = metrics.SuccessfulBackups
             /\ metrics'.FailedBackups = metrics.FailedBackups + 1]_vars

\* three attempts were made and all completed, with both outcomes
C11_Witness ==
    /\ attempts = 3
    /\ CreatesInFlight = {}
    /\ metrics.SuccessfulBackups = 1
    /\ metrics.FailedBackups = 2

\* C12: the step in which a create handler returns leaves LastBackupStart at
\* the clock value read when it took the lock (t0), LastBackupEnd at the clock
\* value at its return (t1) and LastBackupDuration at t1 - t0.
C12_EndAndDurationAtExit ==
    [][\A r \in Slots :
          (req[r].kind = "create" /\ req[r].pc = "engine" /\ req'[r].pc = "done")
          => /\ metrics'.LastBackupStart = req[r].start
             /\ metrics'.LastBackupEnd = now'
             /\ metrics'.LastBackupDuration = now' - req[r].start]_vars

\* C13: a step that changes a metric is a step of a create handler that holds
\* the lock; the counters never decrease; a step of the control loop or of a
\* serving goroutine, and so a reload, leaves the metrics as they are.
C13_OnlyCreateChangesMetrics ==
    [][/\ metrics' # metrics =>
             \E r \in Slots :
                /\ req[r].kind = "create"
                /\ req[r].pc \in {"start", "engine"}
                /\ req'[r].pc \in {"engine", "done"}
                /\ req'[r].locked
                /\ \A q \in Slots \ {r} : req'[q] = req[q]
       /\ metrics'.SuccessfulBackups >= metrics.SuccessfulBackups
       /\ metrics'.FailedBackups >= metrics.FailedBackups
       /\ (loopPc' # loopPc \/ servers' # servers \/ gor' # gor \/ config' # config)
             => metrics' = metrics]_vars

\* a backup succeeded, then the configuration was reloaded: the second
\* generation serves and the metrics still show the backup
C13_Witness ==
    /\ Len(servers) = 2
    /\ servers[2].state = "listening"
    /\ servers[2].config # StartConfig
    /\ metrics.SuccessfulBackups = 1
    /\ metrics.LastBackupSuccess = 1
    /\ metrics.LastBackupStart >= 1

\* The response of q is the rejection for lock contention.
LockRejected(q) == q.out = <<ErrorResult(ErrAPILocked)>>

\* The handler of q took one of its error paths (engine error, marshal error,
\* unreadable, unparsable or invalid configuration, invalid delete location):
\* the last thing it wrote is an error result other than the lock error.
HandlerFailed(q) ==
    /\ q.out # <<>>
    /\ q.out[Len(q.out)].Type = "error"
    /\ ~LockRejected(q)

\* C14: for every completed request the status is 503 exactly when it was
\* rejected for lock contention, 500 exactly when its handler failed, and 200
\* otherwise.
C14_StatusByOutcome ==
    \A r \in Slots :
       req[r].pc = "done" =>
          /\ req[r].status = StatusServiceUnavailable <=> LockRejected(req[r])
          /\ req[r].status = StatusInternalServerError <=> HandlerFailed(req[r])
          /\ req[r].status = StatusOK <=>
                (~LockRejected(req[r]) /\ ~HandlerFailed(req[r]))

\* The endpoints that answer in JSON: all but the index page and /health.
JSONKinds == Kinds \ {"root", "health"}

\* C15: every completed request to a JSON endpoint wrote exactly one envelope
\* object: a success object when it succeeded (200), an error object with a
\* message otherwise.
C15_OneEnvelope ==
    \A r \in Slots :
       (req[r].pc = "done" /\ req[r].kind \in JSONKinds) =>
          /\ Len(req[r].out) = 1
          /\ req[r].status = StatusOK => req[r].out[1].Type = "success"
          /\ req[r].status # StatusOK =>
                (req[r].out[1].Type = "error" /\ req[r].out[1].Message # "")

\* C16: the process has exited only if the serving goroutine that failed is
\* the one of the first generation, on the first server.
C16_ExitOnlyOnFirstBind ==
    exited =>
       \E j \in DOMAIN gor : gor[j].pc = "failed" /\ j = 1 /\ gor[j].srv = 1

\* A step that is the adapter call op.
AdapterCall(op) == ncalls' = ncalls + 1 /\ last'.op = op

\* The backend request of the call of this step met no fault.
NoFault == last'.resp \notin Faults(remote.kind)

\* C17: GetFile returns ErrNotFound exactly when the bucket it addressed holds
\* no object under the key (and the request met no fault), returns a fault of
\* the backend as the same error value, and returns no error otherwise.
C17_GetFileNotFound ==
    [][AdapterCall("GetFile") =>
          LET missing == objs[<<last'.bucket, last'.key>>] = Absent IN
          /\ last'.err = ErrNotFound <=> (missing /\ NoFault)
          /\ ~NoFault => last'.err = last'.resp
          /\ (~missing /\ NoFault) => last'.err = Nil]_vars

\* GetFile of the S3 adapter found no object and returned ErrNotFound, in a
\* bucket that holds an object under another key
C17_Witness ==
    /\ remote.kind = "S3"
    /\ last.op = "GetFile"
    /\ last.resp = Err("awserr", "NotFound")
    /\ last.err = ErrNotFound
    /\ \E k \in StoredKeys : objs[<<last.bucket, k>>] # Absent

\* C18: DeleteFile on a key under which no object was ever written returns
\* ErrNotFound (when the request met no fault).
C18_DeleteNeverWritten ==
    [][(/\ AdapterCall("DeleteFile")
        /\ <<last'.bucket, last'.key>> \notin written
        /\ NoFault)
       => last'.err = ErrNotFound]_vars

\* C19: a GetFileReader that follows a successful PutFile of the same key with
\* the same bucket override (and meets no fault) returns the payload put.
C19_PutThenRead ==
    [][(/\ last.op = "PutFile"
        /\ last.err = Nil
        /\ AdapterCall("GetFileReader")
        /\ last'.key = last.key
        /\ last'.ob = last.ob
        /\ NoFault)
       => (last'.err = Nil /\ last'.val = last.data)]_vars

\* C20: a successful PutFile of a key <dir>/<base> changes the bucket at
\* exactly one key: <dir>/<h>_<base> when the hostname option is enabled and
\* the host name is h, the key itself when the option is disabled.
C20_HostnameKey ==
    [][(/\ AdapterCall("PutFile")
        /\ last'.err = Nil
        /\ Len(last'.key) > 1
        /\ remote.Config.PathHostnameInclude => last'.host = HostName)
       => LET k == IF remote.Config.PathHostnameInclude
                   THEN HostnameKey(last'.key, HostName)
                   ELSE last'.key
          IN objs' = [objs EXCEPT ![<<last'.bucket, k>>] = last'.data]]_vars


\* how often key k was passed to process
Visits(visited, k) == Cardinality({ i \in DOMAIN visited : visited[i] = k })

\* C21: a Walk that returns without error has passed each object of the
\* listing it asked for (the bucket, under the prefix) to process exactly
\* once, whatever the page size: none beyond the first page is skipped, none
\* is visited twice.
C21_WalkVisitsEachOnce ==
    [][(AdapterCall("Walk") /\ last'.err = Nil) =>
          \A k \in StoredKeys :
             Visits(last'.visited, k) =
                IF objs[<<last'.bucket, k>>] # Absent /\ Under(k, last'.prefix)
                THEN 1 ELSE 0]_vars

\* C22: every adapter call addresses overrideBucket when it is non-empty and
\* the configured bucket otherwise, and a Walk lists under overridePath when
\* it is non-empty and under the configured path otherwise.
C22_OverridesTakePrecedence ==
    [][(ncalls' = ncalls + 1) =>
          /\ last'.bucket = (IF last'.ob # "" THEN last'.ob ELSE remote.Config.Bucket)
          /\ last'.op = "Walk" => last'.prefix = UsePath(last'.path)]_vars

\* C23: with a configured timeout, a Walk whose listing is still running at
\* the deadline returns TimeoutError at the deadline and leaves the listing
\* running in the background; a Walk whose listing completes in time returns
\* the listing's own result when it completes.
C23_WalkDeadline ==
    [][(AdapterCall("Walk") /\ remote.Config.Timeout > 0) =>
          IF last'.dur > remote.Config.Timeout
          THEN /\ last'.err.code = "TimeoutError"
               /\ last'.at = remote.Config.Timeout
               /\ last'.background
          ELSE /\ last'.err = last'.resp
               /\ last'.at = last'.dur
               /\ ~last'.background]_vars

\* C24: an adapter call whose backend request fails has issued that request
\* once and returns its failure: no adapter retries.
C24_NoRetries ==
    [][(ncalls' = ncalls + 1 /\ ~NoFault) =>
          /\ last'.tries = 1
          /\ last'.err # Nil]_vars

\* C25: a Walk passes to process only objects whose key lies under the
\* effective prefix.
C25_WalkOnlyUnderPrefix ==
    [][AdapterCall("Walk") =>
          \A i \in DOMAIN last'.visited :
             Under(last'.visited[i], UsePath(last'.path))]_vars


\* The engine calls a delete request with this location may have made.
DeleteCallsAllowed(q) ==
    IF q.where = "local" THEN {<<>>, <<Call("RemoveBackupLocal", q.c)>>}
    ELSE IF q.where = "remote" THEN {<<>>, <<Call("RemoveBackupRemote", q.c)>>}
    ELSE {<<>>}

\* C26 as stated: a completed delete request whose location is neither
\* 'local' nor 'remote' has status 500 and made no engine call; with 'local'
\* it made at most the one call RemoveBackupLocal, with 'remote' at most the
\* one call RemoveBackupRemote.
C26_DeleteByLocation ==
    \A r \in Slots :
       (req[r].kind = "delete" /\ req[r].pc \in {"engine", "done"}) =>
          /\ req[r].calls \in DeleteCallsAllowed(req[r])
          /\ (req[r].pc = "done" /\ req[r].where \notin {"local", "remote"}) =>
                req[r].status = StatusInternalServerError

\* C26 amended: as C26, for a delete request that acquired the operation
\* lock; one that found the lock held has status 503 and the lock error and
\* made no engine call, whatever its location.
C26_DeleteByLocationLocked ==
    \A r \in Slots :
       (req[r].kind = "delete" /\ req[r].pc \in {"engine", "done"}) =>
          /\ req[r].calls \in DeleteCallsAllowed(req[r])
          /\ (req[r].pc = "done" /\ req[r].where \notin {"local", "remote"}) =>
                IF req[r].locked
                THEN /\ req[r].status = StatusInternalServerError
                     /\ req[r].out =
                          <<ErrorResult("Backup location must be 'local' or 'remote'.")>>
                ELSE /\ req[r].status = StatusServiceUnavailable
                     /\ LockRejected(req[r])
          /\ (req[r].locked /\ req[r].where \in {"local", "remote"}) =>
                Len(req[r].calls) = 1

\* a delete with an unknown location has been answered 500 without an engine
\* call, and a delete of a local backup has made its one call
C26_Witness ==
    \E r \in Slots : \E q \in Slots :
       /\ req[r].kind = "delete" /\ req[r].pc = "done" /\ req[r].locked
       /\ req[r].where = "other"
       /\ req[r].status = StatusInternalServerError
       /\ req[r].calls = <<>>
       /\ req[q].kind = "delete" /\ req[q].where = "local"
       /\ req[q].calls = <<Call("RemoveBackupLocal", req[q].c)>>

\* The handlers between their successful TryAcquire and their return.
Holders == {r \in Slots : req[r].locked /\ req[r].pc \notin {"idle", "start", "done"}}

\* C27: the operation lock is held exactly when one lock-guarded handler is
\* between its successful TryAcquire and its return, never by two; a step
\* that frees the lock is the return of the handler that holds it, and a step
\* that takes it is the TryAcquire of a handler that did not hold it.
C27_LockHeldByOneHandler ==
    /\ [](lock = Cardinality(Holders) /\ lock <= LockSize)
    /\ [][/\ lock' < lock =>
                \E r \in Holders : /\ req'[r].pc = "done"
                                   /\ Holders' = Holders \ {r}
                                   /\ lock' = lock - 1
          /\ lock' > lock =>
                \E r \in Slots \ Holders : /\ req[r].pc = "start"
                                           /\ Holders' = Holders \cup {r}
                                           /\ lock' = lock + 1]_vars

\* a handler that took the lock has returned with an error, the lock is free
\* again and has been taken by the next handler
C27_Witness ==
    \E r \in Slots : \E q \in Slots :
       /\ req[r].pc = "done" /\ req[r].locked
       /\ req[r].status = StatusInternalServerError
       /\ q \in Holders
       /\ lock = 1

\* A mutating backup-engine operation accepted by generation g is in flight.
EngineInFlight(r, g) ==
    /\ req[r].kind \in MutatingKinds \ {"configUpdate"}
    /\ req[r].pc = "engine"
    /\ req[r].calls # <<>>
    /\ req[r].gen = g

\* C28: when the control loop closes the current server, no mutating
\* backup-engine operation accepted by that generation is in flight and the
\* only handler holding the lock is the config update that sent the signal.
C28_QuiescentAtClose ==
    [][(loopPc = "close" /\ loopPc' # "close") =>
          /\ \A r \in Slots : ~EngineInFlight(r, server)
          /\ \A r \in Holders : req[r].kind = "configUpdate" /\ req[r].pc = "sent"]_vars

\* C29: the goroutine spawned for generation n calls ListenAndServe on the
\* server built for generation n, so no server has ListenAndServe called on
\* it by two goroutines.
C29_OneGoroutinePerServer ==
    \A j \in DOMAIN gor :
       gor[j].pc # "spawned" =>
          /\ gor[j].srv = j
          /\ \A i \in DOMAIN gor \ {j} : gor[i].pc # "spawned" => gor[i].srv # gor[j].srv

\* C30: a create request that finds the lock held is answered 503, makes no
\* CreateBackup call and leaves the six metrics as they were.
C30_RejectedCreateTouchesNothing ==
    [][\A r \in Slots :
          (/\ req[r].kind = "create"
           /\ req[r].pc = "start"
           /\ req'[r].pc # "start"
           /\ ~TryAcquire)
          => /\ req'[r].pc = "done"
             /\ req'[r].status = StatusServiceUnavailable
             /\ req'[r].calls = <<>>
             /\ metrics' = metrics]_vars

\* a create request was rejected with 503 while another create, which has set
\* LastBackupStart, holds the lock
C30_Witness ==
    \E r \in Slots : \E q \in Slots :
       /\ req[r].kind = "create" /\ req[r].pc = "done"
       /\ req[r].status = StatusServiceUnavailable
       /\ req[r].calls = <<>>
       /\ req[q].kind = "create" /\ req[q].pc = "engine"
       /\ metrics.LastBackupStart >= 1


\* The control loop waits for the next reload signal and no request is in
\* flight (so no signal is pending).
Quiescent ==
    /\ loopPc = "recv"
    /\ \A r \in Slots : req[r].pc \in {"idle", "done"}

\* C31: once every reload signal has been consumed and no request is in
\* flight, the current server generation was built with the configuration
\* accepted last (the start-up configuration if none was), which is also the
\* value of api.config; api.config is written only by a config-update handler
\* that holds the lock and whose body passed validation, and once its write is
\* complete api.config is the configuration it submitted.
C31_ServesLastAccepted ==
    /\ [](Quiescent => /\ servers[server].config = accepted
                       /\ config = accepted)
    /\ [][config' # config =>
             \E r \in Slots :
                /\ req[r].kind = "configUpdate"
                /\ req[r].pc \in {"locked", "assign"}
                /\ req[r].locked /\ lock = 1
                /\ ValidBody(req[r].body)
                /\ accepted' = req[r].body.cfg
                /\ req'[r].pc = "send" => config' = req[r].body.cfg
                /\ \A f \in ConfigFields : config'[f] \in {config[f], req[r].body.cfg[f]}]_vars

\* two configurations were accepted one after the other, both reloads are
\* over and the third generation was built with the second configuration
C31_Witness ==
    /\ Quiescent
    /\ ~exited
    /\ server = 3
    /\ servers[3].config = accepted
    /\ accepted # StartConfig
    /\ servers[2].config # accepted
    /\ servers[2].config # StartConfig

=============================================================================
